---- MODULE Spec2Model ----
(***************************************************************************)
(* A model of src/modified_munkres.py: the class ReducedMunkres, a solver   *)
(* object that owns a cost matrix, three boolean grids and two cover        *)
(* vectors, and whose public methods are the numbered steps of the          *)
(* modified Kuhn-Munkres method.                                            *)
(*                                                                          *)
(* Arrays are functions over 0-based indices, as in the source: a grid is   *)
(* a function [0..n-1 -> [0..m-1 -> value]].  A Python value that may be    *)
(* None is a sequence of length at most one: None is << >> and the value v  *)
(* is <<v>>.                                                                *)
(*                                                                          *)
(* The class has no working driver (compute is empty), so the caller is     *)
(* part of the model: under Spec the caller invokes the steps in the order  *)
(* of the transition table (1, 2, 3, 4, then 5 and back to 3, or 6), under  *)
(* SpecStar it calls star on arbitrary positions of a fresh solver, under   *)
(* SpecReduce it calls step1 repeatedly.  An exception raised by a method   *)
(* is recorded in err; the object keeps the state it had at the raise.      *)
(***************************************************************************)
EXTENDS Integers, Sequences, FiniteSets, TLC

VARIABLES
    pc,           \* the caller's position: the next call of the transition table
    input,        \* the array handed to the constructor (the caller's copy)
    n, m,         \* self.n, self.m
    costMat,      \* self.costMat
    starred,      \* self.starred
    primed,       \* self.primed
    row_covered,  \* self.row_covered
    col_covered,  \* self.col_covered
    z1_r, z1_c,   \* self.z1_r, self.z1_c
    z1,           \* step4's local z1
    step, done,   \* step4's locals step and done
    ret,          \* what the last call returned
    err,          \* the exception the last call raised, or NoError
    op,           \* the method called last
    arg,          \* the position passed to the last star call
    iters,        \* passes of step4's while loop in the current call
    calls         \* calls made under SpecReduce (step1) and SpecReset (prime)

vars == <<pc, input, n, m, costMat, starred, primed, row_covered, col_covered,
          z1_r, z1_c, z1, step, done, ret, err, op, arg, iters, calls>>

(***************************************************************************)
(* Bounds of the model.                                                     *)
(***************************************************************************)
\* cost entries range over 0..MaxVal
MaxVal == 2

\* number of step1 calls made under SpecReduce, of prime calls under SpecReset
MaxCalls == 2

\* the shapes (rows, columns) of the arrays handed to the constructor;
\* <<2, 0>>, <<3, 0>> and <<3, 1>> have fewer than rows-1 columns
Shapes == {<<1, 0>>, <<1, 1>>, <<1, 2>>, <<2, 1>>, <<2, 2>>, <<2, 3>>,
           <<3, 2>>, <<3, 3>>, <<2, 0>>, <<3, 0>>, <<3, 1>>}

\* zero and non-zero cost, for the arrays of SpecStar (star never reads a cost)
ZeroOne == {0, 1}

(***************************************************************************)
(* Python values.                                                           *)
(***************************************************************************)
None == << >>
Some(v) == <<v>>

NoError == "none"
AssertShape == "AssertionError: self.m >= self.n - 1"
AssertColCovered == "AssertionError: self.col_covered[col] == True"
AssertRowUncovered == "AssertionError: self.row_covered[z1[0]] == False"
UnpackError == "ValueError: not enough values to unpack (expected 3, got 2)"
CoveredError == "ValueError: Column is already covered"

(***************************************************************************)
(* numpy helpers.                                                           *)
(***************************************************************************)
Matrices(a, b, V) == [0..(a - 1) -> [0..(b - 1) -> V]]

\* costMat.shape
Shape(M) == LET a == Cardinality(DOMAIN M)
            IN  <<a, IF a = 0 THEN 0 ELSE Cardinality(DOMAIN M[0])>>

\* np.full(shape, v) and [v for i in range(k)]
Full(a, b, v) == [i \in 0..(a - 1) |-> [j \in 0..(b - 1) |-> v]]
Fill(k, v) == [i \in 0..(k - 1) |-> v]

\* np.ndenumerate(A): the pairs (index, value) in row-major order
ndenumerate(A) ==
    LET s == Shape(A)
    IN  [k \in 1..(s[1] * s[2]) |->
            LET i == (k - 1) \div s[2]
                j == (k - 1) % s[2]
            IN  <<(<<i, j>>), A[i][j]>>]

Rows == 0..(n - 1)
Cols == 0..(m - 1)

(***************************************************************************)
(* __init__ (lines 15-34): the shape test of line 34.                       *)
(***************************************************************************)
shapeOKLoose(a, b) == b >= a - 2

shapeOK(a, b) == b >= a - 1

(***************************************************************************)
(* star (lines 109-129): S is self.starred, pos the tested position.        *)
(***************************************************************************)
canStar(S, pos) ==
    LET row == pos[1]
        col == pos[2]
    IN  /\ ~ \E j \in Cols : col # j /\ S[row][j]
        /\ ~ \E i \in Rows : row # i /\ S[i][col]

\* star without its second loop: only the row is tested
starRowOnly(S, pos) ==
    IF ~ \E j \in Cols : pos[2] # j /\ S[pos[1]][j]
    THEN [S EXCEPT ![pos[1]][pos[2]] = TRUE]
    ELSE S

star(S, pos) ==
    IF canStar(S, pos) THEN [S EXCEPT ![pos[1]][pos[2]] = TRUE] ELSE S

(***************************************************************************)
(* step1 (lines 157-165): np.min(axis=0), repeated over the rows, is        *)
(* subtracted from the matrix.                                              *)
(***************************************************************************)
MinOf(S) == CHOOSE v \in S : \A w \in S : v <= w

ColMin(M, j) == MinOf({M[i][j] : i \in DOMAIN M})

\* np.min(axis=1) in place of axis=0: on a square matrix column j loses the
\* minimum of row j; on any other shape the subtraction cannot broadcast and
\* the matrix stays as it was
step1Axis1(M) ==
    LET s == Shape(M)
    IN  IF s[1] = s[2]
        THEN [i \in DOMAIN M |->
                 [j \in DOMAIN M[i] |->
                     M[i][j] - MinOf({M[j][k] : k \in DOMAIN M[j]})]]
        ELSE M

\* np.min without an axis: the minimum of the whole matrix is subtracted
step1Global(M) ==
    LET all == UNION {{M[i][j] : j \in DOMAIN M[i]} : i \in DOMAIN M}
    IN  [i \in DOMAIN M |-> [j \in DOMAIN M[i] |-> M[i][j] - MinOf(all)]]

step1(M) == [i \in DOMAIN M |-> [j \in DOMAIN M[i] |-> M[i][j] - ColMin(M, j)]]

(***************************************************************************)
(* step2 (lines 167-176): every zero of the matrix, in ndenumerate order,   *)
(* is handed to star.                                                       *)
(***************************************************************************)
RECURSIVE step2Scan(_, _, _)
step2Scan(items, k, S) ==
    IF k > Len(items) THEN S
    ELSE step2Scan(items, k + 1,
                   IF items[k][2] = 0 THEN star(S, items[k][1]) ELSE S)

\* a step2 that leaves the last (virtual) row out of its scan
step2SkipVirtual(M, S) ==
    LET items == ndenumerate(M)
        real == Len(items) - Shape(M)[2]
    IN  step2Scan([k \in 1..real |-> items[k]], 1, S)

step2(M, S) == step2Scan(ndenumerate(M), 1, S)

(***************************************************************************)
(* step3 (lines 178-190).  The loop header unpacks each item of             *)
(* ndenumerate, a pair (index, value), into the three targets               *)
(* _, col, starred: with an item of any other length than three the         *)
(* unpacking raises ValueError before the body runs.                        *)
(***************************************************************************)
RECURSIVE step3Scan(_, _, _)
step3Scan(items, k, cc) ==
    IF k > Len(items) THEN [col_covered |-> cc, err |-> NoError, ret |-> Some(4)]
    ELSE IF Len(items[k]) # 3
         THEN [col_covered |-> cc, err |-> UnpackError, ret |-> None]
    ELSE LET col == items[k][2]
             isStarred == items[k][3]
         IN  IF isStarred /\ ~cc[col]
             THEN step3Scan(items, k + 1, [cc EXCEPT ![col] = TRUE])
             ELSE IF isStarred /\ cc[col]
                  THEN [col_covered |-> cc, err |-> CoveredError, ret |-> None]
                  ELSE step3Scan(items, k + 1, cc)

\* a step3 that unpacks (index, value) correctly but covers the column of
\* every cell, starred or not
step3CoverAll(S, cc) ==
    [col_covered |-> [j \in DOMAIN cc |-> cc[j] \/ Shape(S)[1] > 0],
     err |-> NoError, ret |-> Some(4)]

step3(S, cc) == step3Scan(ndenumerate(S), 1, cc)

(***************************************************************************)
(* _findUncovZero (lines 36-46): the last uncovered zero in scan order.     *)
(***************************************************************************)
RECURSIVE uncovScan(_, _, _)
uncovScan(items, k, uncov_zero) ==
    IF k > Len(items) THEN uncov_zero
    ELSE LET p == items[k][1]
             value == items[k][2]
         IN  uncovScan(items, k + 1,
                       IF value = 0 /\ ~col_covered[p[2]] /\ ~row_covered[p[1]]
                       THEN Some(p) ELSE uncov_zero)

\* a search that stops at the first uncovered zero of the scan
RECURSIVE firstUncovScan(_, _)
firstUncovScan(items, k) ==
    IF k > Len(items) THEN None
    ELSE IF /\ items[k][2] = 0
            /\ ~col_covered[items[k][1][2]]
            /\ ~row_covered[items[k][1][1]]
         THEN Some(items[k][1])
         ELSE firstUncovScan(items, k + 1)

findFirstUncovZero == firstUncovScan(ndenumerate(costMat), 1)

\* a search that takes any uncovered cell, zero or not
RECURSIVE anyUncovScan(_, _, _)
anyUncovScan(items, k, uncov) ==
    IF k > Len(items) THEN uncov
    ELSE anyUncovScan(items, k + 1,
                      IF ~col_covered[items[k][1][2]] /\ ~row_covered[items[k][1][1]]
                      THEN Some(items[k][1]) ELSE uncov)

findUncovCell == anyUncovScan(ndenumerate(costMat), 1, None)

findUncovZero == uncovScan(ndenumerate(costMat), 1, None)

(***************************************************************************)
(* _findStarInRow (lines 48-58) and list.index (line 217).                  *)
(***************************************************************************)
RECURSIVE firstTrue(_, _)
firstTrue(list, i) ==
    IF i \notin DOMAIN list THEN -1
    ELSE IF list[i] THEN i ELSE firstTrue(list, i + 1)

findStarInRow(row) == firstTrue(starred[row], 0)

index(list, v) == CHOOSE i \in DOMAIN list :
                      list[i] = v /\ \A k \in DOMAIN list : list[k] = v => i <= k

(***************************************************************************)
(* The initial states: an array has been built by the caller and nothing    *)
(* has been constructed yet.                                                *)
(***************************************************************************)
Inputs(V) == UNION {Matrices(s[1], s[2], V) : s \in Shapes}

InitWith(V) ==
    /\ input \in Inputs(V)
    /\ pc = "new"
    /\ n = 0 /\ m = 0
    /\ costMat = << >> /\ starred = << >> /\ primed = << >>
    /\ row_covered = << >> /\ col_covered = << >>
    /\ z1_r = None /\ z1_c = None /\ z1 = None
    /\ step = 0 /\ done = FALSE
    /\ ret = None /\ err = NoError /\ op = "none" /\ arg = None
    /\ iters = 0 /\ calls = 0

Init == InitWith(0..MaxVal)

InitStar == InitWith(ZeroOne)

(***************************************************************************)
(* __init__ (lines 15-34).  The fields are assigned before the assertion    *)
(* of line 34; when it fails the constructor raises and the caller gets no  *)
(* object, so no method can be called: pc = "failed" enables nothing.       *)
(***************************************************************************)
Construct ==
    /\ pc = "new"
    /\ n' = Shape(input)[1]
    /\ m' = Shape(input)[2]
    /\ costMat' = input
    /\ starred' = Full(n', m', FALSE)
    /\ primed' = Full(n', m', FALSE)
    /\ row_covered' = Fill(n', FALSE)
    /\ col_covered' = Fill(m', FALSE)
    /\ z1_r' = None /\ z1_c' = None
    /\ op' = "__init__"
    /\ ret' = None
    /\ IF shapeOK(n', m')
       THEN pc' = "step1" /\ err' = NoError
       ELSE pc' = "failed" /\ err' = AssertShape
    /\ UNCHANGED <<input, z1, step, done, arg, iters, calls>>

(***************************************************************************)
(* compute (lines 233-234): the body is pass.                               *)
(***************************************************************************)
Compute ==
    /\ pc = "step1"
    /\ pc' = "returned"
    /\ op' = "compute"
    /\ ret' = None
    /\ err' = NoError
    /\ UNCHANGED <<input, n, m, costMat, starred, primed, row_covered,
                   col_covered, z1_r, z1_c, z1, step, done, arg, iters, calls>>

(***************************************************************************)
(* step1 (lines 157-165).                                                   *)
(***************************************************************************)
DoStep1 ==
    /\ costMat' = step1(costMat)
    /\ ret' = Some(2)
    /\ err' = NoError
    /\ op' = "step1"
    /\ UNCHANGED <<input, n, m, starred, primed, row_covered, col_covered,
                   z1_r, z1_c, z1, step, done, arg, iters>>

Step1 ==
    /\ pc = "step1"
    /\ DoStep1
    /\ pc' = "step2"
    /\ UNCHANGED calls

\* step1 called again and again on the same solver
Step1Call ==
    /\ pc = "step1"
    /\ calls < MaxCalls
    /\ DoStep1
    /\ calls' = calls + 1
    /\ UNCHANGED pc

(***************************************************************************)
(* star (lines 109-129) called by the caller on any position.               *)
(***************************************************************************)
StarCall ==
    /\ pc = "step1"
    /\ \E pos \in Rows \X Cols :
          /\ starred' = star(starred, pos)
          /\ arg' = Some(pos)
    /\ op' = "star"
    /\ ret' = None
    /\ err' = NoError
    /\ UNCHANGED <<pc, input, n, m, costMat, primed, row_covered, col_covered,
                   z1_r, z1_c, z1, step, done, iters, calls>>

(***************************************************************************)
(* step2 (lines 167-176).                                                   *)
(***************************************************************************)
Step2 ==
    /\ pc = "step2"
    /\ starred' = step2(costMat, starred)
    /\ ret' = Some(3)
    /\ err' = NoError
    /\ op' = "step2"
    /\ pc' = "step3"
    /\ UNCHANGED <<input, n, m, costMat, primed, row_covered, col_covered,
                   z1_r, z1_c, z1, step, done, arg, iters, calls>>

(***************************************************************************)
(* step3 (lines 178-190).  The table sends the caller on to step 4.         *)
(***************************************************************************)
Step3 ==
    /\ pc = "step3"
    /\ LET r == step3(starred, col_covered)
       IN  /\ col_covered' = r.col_covered
           /\ err' = r.err
           /\ ret' = r.ret
    /\ op' = "step3"
    /\ pc' = "step4"
    /\ UNCHANGED <<input, n, m, costMat, starred, primed, row_covered,
                   z1_r, z1_c, z1, step, done, arg, iters, calls>>

(***************************************************************************)
(* step4 (lines 192-223): the entry (lines 193-194), then one action per    *)
(* pass of the while loop (lines 196-223).  The method has no return        *)
(* statement: it returns None, and the successor lives in its local step.   *)
(* A failed assertion leaves the method with the prime of line 206 set.     *)
(***************************************************************************)
Step4 ==
    /\ pc = "step4"
    /\ step' = 0
    /\ done' = FALSE
    /\ z1' = None
    /\ iters' = 0
    /\ op' = "step4"
    /\ ret' = None
    /\ err' = NoError
    /\ pc' = "loop4"
    /\ UNCHANGED <<input, n, m, costMat, starred, primed, row_covered,
                   col_covered, z1_r, z1_c, arg, calls>>

\* a step4 whose loop body neither asserts nor covers the row: it only
\* uncovers the column of the star
Step4LoopNoRowCover ==
    /\ pc = "loop4"
    /\ ~done
    /\ iters' = iters + 1
    /\ z1' = findUncovZero
    /\ IF z1' = None
       THEN /\ done' = TRUE /\ step' = 6 /\ pc' = "step6"
            /\ UNCHANGED <<primed, z1_r, z1_c, col_covered>>
       ELSE /\ primed' = [primed EXCEPT ![z1'[1][1]][z1'[1][2]] = TRUE]
            /\ IF findStarInRow(z1'[1][1]) = -1
               THEN /\ z1_r' = Some(z1'[1][1]) /\ z1_c' = Some(z1'[1][2])
                    /\ done' = TRUE /\ step' = 5 /\ pc' = "step5"
                    /\ UNCHANGED col_covered
               ELSE /\ col_covered' =
                          [col_covered EXCEPT ![index(starred[z1'[1][1]], TRUE)] = FALSE]
                    /\ UNCHANGED <<z1_r, z1_c, done, step, pc>>
    /\ UNCHANGED <<input, n, m, costMat, starred, row_covered, ret, err, op,
                   arg, calls>>

Step4Loop ==
    /\ pc = "loop4"
    /\ ~done
    /\ iters' = iters + 1
    /\ z1' = findUncovZero
    /\ IF z1' = None
       THEN /\ done' = TRUE
            /\ step' = 6
            /\ pc' = "step6"
            /\ UNCHANGED <<primed, z1_r, z1_c, row_covered, col_covered, err>>
       ELSE LET r == z1'[1][1]
                c == z1'[1][2]
                starCol == findStarInRow(r)
            IN  /\ primed' = [primed EXCEPT ![r][c] = TRUE]
                /\ IF starCol = -1
                   THEN /\ z1_r' = Some(r)
                        /\ z1_c' = Some(c)
                        /\ done' = TRUE
                        /\ step' = 5
                        /\ pc' = "step5"
                        /\ UNCHANGED <<row_covered, col_covered, err>>
                   ELSE LET col == index(starred[r], TRUE)
                        IN  IF col_covered[col] # TRUE
                            THEN /\ err' = AssertColCovered
                                 /\ pc' = "raised"
                                 /\ UNCHANGED <<row_covered, col_covered,
                                                z1_r, z1_c, done, step>>
                            ELSE IF row_covered[r] # FALSE
                            THEN /\ err' = AssertRowUncovered
                                 /\ pc' = "raised"
                                 /\ UNCHANGED <<row_covered, col_covered,
                                                z1_r, z1_c, done, step>>
                            ELSE /\ row_covered' = [row_covered EXCEPT ![r] = TRUE]
                                 /\ col_covered' = [col_covered EXCEPT ![col] = FALSE]
                                 /\ UNCHANGED <<z1_r, z1_c, done, step, pc, err>>
    /\ UNCHANGED <<input, n, m, costMat, starred, ret, op, arg, calls>>

(***************************************************************************)
(* reset (lines 149-155) and step5 (lines 225-231), which only calls it.    *)
(* The table sends the caller back to step 3.                               *)
(***************************************************************************)
\* a reset that clears the covers and forgets the primes
resetCoversOnly ==
    /\ row_covered' = Fill(n, FALSE)
    /\ col_covered' = Fill(m, FALSE)
    /\ primed' = primed

reset ==
    /\ row_covered' = Fill(n, FALSE)
    /\ col_covered' = Fill(m, FALSE)
    /\ primed' = Full(Shape(costMat)[1], Shape(costMat)[2], FALSE)

Step5 ==
    /\ pc = "step5"
    /\ reset
    /\ op' = "step5"
    /\ ret' = None
    /\ err' = NoError
    /\ pc' = "step3"
    /\ UNCHANGED <<input, n, m, costMat, starred, z1_r, z1_c, z1, step, done,
                   arg, iters, calls>>

(***************************************************************************)
(* The specifications.  Step 6 does not exist in the source: pc = "step6"   *)
(* enables nothing.                                                         *)
(***************************************************************************)
Next ==
    \/ Construct
    \/ Compute
    \/ Step1
    \/ Step2
    \/ Step3
    \/ Step4
    \/ Step4Loop
    \/ Step5

Spec == Init /\ [][Next]_vars

NextStar ==
    \/ Construct
    \/ StarCall

SpecStar == InitStar /\ [][NextStar]_vars

NextReduce ==
    \/ Construct
    \/ Step1Call

SpecReduce == Init /\ [][NextReduce]_vars

(***************************************************************************)
(* Quantities the properties speak of.                                      *)
(***************************************************************************)
RealRows == 0..(n - 2)
VirtualRow == n - 1

StarCount == Cardinality({p \in Rows \X Cols : starred[p[1]][p[2]]})

CoverCount == Cardinality({i \in Rows : row_covered[i]})
              + Cardinality({j \in Cols : col_covered[j]})

AllClear ==
    /\ \A i \in Rows : \A j \in Cols : ~starred[i][j] /\ ~primed[i][j]
    /\ \A i \in Rows : ~row_covered[i]
    /\ \A j \in Cols : ~col_covered[j]

RECURSIVE SumCells(_, _)
SumCells(M, cells) ==
    IF cells = {} THEN 0
    ELSE LET p == CHOOSE q \in cells : TRUE
         IN  M[p[1]][p[2]] + SumCells(M, cells \ {p})

\* the cost, in the array M, of giving real row i the column f[i] and every
\* other column to the virtual row
CostOf(M, f) ==
    LET a == Shape(M)[1]
        b == Shape(M)[2]
        taken == {f[i] : i \in DOMAIN f}
    IN  SumCells(M, {<<i, f[i]>> : i \in DOMAIN f}
                    \cup {<<a - 1, j>> : j \in (0..(b - 1)) \ taken})

\* the minimum over every assignment of the real rows to distinct columns
BruteMin(M) ==
    LET a == Shape(M)[1]
        b == Shape(M)[2]
        maps == {f \in [0..(a - 2) -> 0..(b - 1)] :
                    \A i, k \in 0..(a - 2) : i # k => f[i] # f[k]}
    IN  MinOf({CostOf(M, f) : f \in maps})

\* the cost, in the caller's array, of the assignment read off self.starred:
\* the starred cells of the real rows, and the virtual row's cell in every
\* column no real row has a star in
AssignedCost ==
    SumCells(input, {p \in RealRows \X Cols : starred[p[1]][p[2]]}
                    \cup {<<VirtualRow, j>> : j \in
                            {k \in Cols : \A i \in RealRows : ~starred[i][k]}})

(***************************************************************************)
(* C1: for every valid input, once compute has returned, each of the n-1    *)
(* real rows has exactly one assigned (starred) column and no two real      *)
(* rows have the same column.                                               *)
(***************************************************************************)
C1_ComputeAssignsEveryRealRow ==
    pc = "returned" =>
        \A i \in RealRows :
            \E j \in Cols :
                /\ starred[i][j]
                /\ \A k \in Cols : starred[i][k] => k = j
                /\ \A h \in RealRows : starred[h][j] => h = i

(***************************************************************************)
(* C2: once compute has returned, the cost of the assignment it made,       *)
(* taken in the original matrix, is the minimum over all assignments of     *)
(* the real rows to distinct columns with the other columns left to the     *)
(* virtual row.                                                             *)
(***************************************************************************)
C2_ComputeCostIsMinimal ==
    pc = "returned" => AssignedCost = BruteMin(input)

(***************************************************************************)
(* C3: construction on a matrix with m < n-1 fails with the assertion and   *)
(* no method is ever called on it; with m >= n-1 it succeeds, and leaves    *)
(* every star, prime and cover false.                                       *)
(***************************************************************************)
C3_ConstructionChecksShape ==
    pc # "new" =>
        LET a == Shape(input)[1]
            b == Shape(input)[2]
        IN  /\ b < a - 1 => pc = "failed" /\ err = AssertShape /\ op = "__init__"
            /\ b >= a - 1 => pc # "failed" /\ (op = "__init__" => err = NoError /\ AllClear)

C3_Witness == pc = "failed" /\ Shape(input) = <<3, 1>>

(***************************************************************************)
(* C4: after any sequence of star calls on a fresh solver, no column holds  *)
(* two stars among the non-virtual rows and no non-virtual row holds two    *)
(* stars.                                                                   *)
(***************************************************************************)
C4_StarKeepsRealRowsExclusive ==
    /\ \A j \in Cols : Cardinality({i \in RealRows : starred[i][j]}) <= 1
    /\ \A i \in RealRows : Cardinality({j \in Cols : starred[i][j]}) <= 1

\* two real rows hold a star and the last call, on a real row, was refused
C4_Witness ==
    /\ op = "star"
    /\ arg[1][1] \in RealRows
    /\ ~starred[arg[1][1]][arg[1][2]]
    /\ Cardinality({i \in RealRows : \E j \in Cols : starred[i][j]}) = 2

(***************************************************************************)
(* C5: the virtual row is exempt from row-exclusivity: when the virtual     *)
(* row has zero cost in two columns that hold no real-row star and one of   *)
(* the two cells is starred, a star call on the other one stars it too.     *)
(***************************************************************************)
C5_VirtualRowTakesTwoStars ==
    (/\ op = "star"
     /\ arg[1][1] = VirtualRow
     /\ costMat[VirtualRow][arg[1][2]] = 0
     /\ \A i \in RealRows : ~starred[i][arg[1][2]]
     /\ \E j \in Cols :
           /\ j # arg[1][2]
           /\ costMat[VirtualRow][j] = 0
           /\ starred[VirtualRow][j]
           /\ \A i \in RealRows : ~starred[i][j])
    => starred[VirtualRow][arg[1][2]]

(***************************************************************************)
(* C6: step1 is idempotent: a step1 that follows a step1 changes no entry   *)
(* of the matrix.                                                           *)
(***************************************************************************)
C6_Step1Idempotent ==
    [][(calls >= 1 /\ calls' = calls + 1) => costMat' = costMat]_vars

\* a second step1 has run on a matrix the first one changed
C6_Witness == calls = 2 /\ costMat # input

(***************************************************************************)
(* C7: after step1 every entry is its original value minus the original     *)
(* minimum of its column, so it is >= 0 and every column holds a zero;      *)
(* stars, primes and covers are as they were (all false) and step1          *)
(* returned 2.                                                              *)
(***************************************************************************)
C7_Step1SubtractsColumnMinimum ==
    (op = "step1" /\ pc = "step2") =>
        /\ \A j \in Cols :
              \E v \in {input[i][j] : i \in Rows} :
                  /\ \A i \in Rows : v <= input[i][j]
                  /\ \A i \in Rows : costMat[i][j] = input[i][j] - v
        /\ \A i \in Rows : \A j \in Cols : costMat[i][j] >= 0
        /\ \A j \in Cols : \E i \in Rows : costMat[i][j] = 0
        /\ AllClear
        /\ ret = Some(2)

\* step1 has run and changed an entry
C7_Witness == op = "step1" /\ pc = "step2" /\ costMat # input

(***************************************************************************)
(* C8: in step4, run after step1, step2 and step3, both assertions hold     *)
(* at every pass of the loop: the column it uncovers is covered and the     *)
(* row it covers is uncovered.                                              *)
(***************************************************************************)
C8_Step4AssertionsHold ==
    op = "step4" => err \notin {AssertColCovered, AssertRowUncovered}

(***************************************************************************)
(* C9: in every state of a run in transition-table order, the number of     *)
(* covered rows plus the number of covered columns is at most the number    *)
(* of starred cells.                                                        *)
(***************************************************************************)
C9_CoversAtMostStars == CoverCount <= StarCount

\* step3 has run again after a step4 that recorded Z1 and the step5 after it
C9_Witness == op = "step3" /\ z1_r # None /\ StarCount >= 2

(***************************************************************************)
(* C10: a step5 that runs after step4 recorded Z1 leaves exactly one more   *)
(* starred cell than there was before it.                                   *)
(***************************************************************************)
C10_Step5AddsOneStar ==
    [][(pc = "step5" /\ z1_r # None /\ pc' = "step3")
          => StarCount' = StarCount + 1]_vars

(***************************************************************************)
(* C11: step4 reports its successor: when it ends, its result is 6          *)
(* exactly when no uncovered zero was left and 5 exactly when the zero it   *)
(* primed last has no star in its row, and it is never anything else.       *)
(***************************************************************************)
C11_Step4ReportsSuccessor ==
    (op = "step4" /\ done) =>
        /\ ret \in {Some(5), Some(6)}
        /\ ret = Some(6) <=> z1 = None
        /\ ret = Some(5) <=>
              (z1 # None /\ \A j \in Cols : ~starred[z1[1][1]][j])

(***************************************************************************)
(* C12: a step3 that starts with every column cover clear and no two stars  *)
(* in one column ends without error, with a column covered exactly when it  *)
(* holds a star, the row covers as they were (all clear), and returns 4.    *)
(***************************************************************************)
C12_Step3CoversStarredColumns ==
    (op = "step3" /\ pc = "step4") =>
        /\ err = NoError
        /\ ret = Some(4)
        /\ \A j \in Cols : col_covered[j] <=> \E i \in Rows : starred[i][j]
        /\ \A i \in Rows : ~row_covered[i]

(***************************************************************************)
(* _isIndependent (lines 84-107).  No method of the class calls it.         *)
(***************************************************************************)
isIndependent(pos) ==
    LET row == pos[1]
        col == pos[2]
    IN  IF row = n - 1 THEN TRUE
        ELSE /\ ~ \E j \in Cols : col # j /\ costMat[row][j] = 0
             /\ ~ \E i \in Rows : row # i /\ costMat[i][col] = 0

(***************************************************************************)
(* C13: step2 stars a zero only if it passes the independence test: a       *)
(* cell of a non-virtual row is starred by step2 only when its row and its  *)
(* column hold no other zero; a cell of the virtual row always passes.      *)
(***************************************************************************)
C13_Step2StarsOnlyIndependentZeros ==
    (op = "step2" /\ pc = "step3") =>
        \A p \in Rows \X Cols : starred[p[1]][p[2]] => isIndependent(p)

(***************************************************************************)
(* A call of step4 runs to its end once entered: the loop of lines          *)
(* 196-223 is synchronous code, so a pass that can run does run.  step4     *)
(* reads a cost only to compare it with zero, so the arrays are those of    *)
(* SpecStar: after step1 they give every zero pattern a matrix can have.    *)
(***************************************************************************)
SpecLive == InitStar /\ [][Next]_vars /\ WF_vars(Step4Loop)

(***************************************************************************)
(* C14: every call of step4 ends: the loop makes at most n+1 passes, a      *)
(* pass that does not end the call covers a row that was uncovered, and a   *)
(* call that is in its loop leaves it.                                      *)
(***************************************************************************)
C14_Step4Terminates ==
    /\ [](iters <= n + 1)
    /\ [][(pc = "loop4" /\ pc' = "loop4") =>
             \E r \in Rows : ~row_covered[r] /\ row_covered'[r]]_vars
    /\ (pc = "loop4") ~> (pc # "loop4")

\* a call of step4 has ended after a pass of its loop
C14_Witness == op = "step4" /\ pc # "loop4" /\ iters >= 1 /\ z1 # None

(***************************************************************************)
(* The uncovered zeros of the current state and the last cell of a set in   *)
(* row-major order.                                                         *)
(***************************************************************************)
UncovZeros ==
    {p \in Rows \X Cols :
        costMat[p[1]][p[2]] = 0 /\ ~row_covered[p[1]] /\ ~col_covered[p[2]]}

LastOf(S) == CHOOSE p \in S : \A q \in S : q[1] * m + q[2] <= p[1] * m + p[2]

C17_Step5ClearsZ1 ==
    op = "step5" => z1_r = None /\ z1_c = None

(***************************************************************************)
(* prime (lines 140-147), reset (lines 149-155) and step5 (lines 225-231)   *)
(* called by the caller on a constructed solver, in any order.              *)
(***************************************************************************)
PrimeCall ==
    /\ pc = "step1"
    /\ calls < MaxCalls
    /\ \E pos \in Rows \X Cols :
          /\ primed' = [primed EXCEPT ![pos[1]][pos[2]] = TRUE]
          /\ arg' = Some(pos)
    /\ calls' = calls + 1
    /\ op' = "prime"
    /\ ret' = None
    /\ err' = NoError
    /\ UNCHANGED <<pc, input, n, m, costMat, starred, row_covered, col_covered,
                   z1_r, z1_c, z1, step, done, iters>>

ResetCall ==
    /\ pc = "step1"
    /\ reset
    /\ op' = "reset"
    /\ ret' = None
    /\ err' = NoError
    /\ UNCHANGED <<pc, input, n, m, costMat, starred, z1_r, z1_c, z1, step,
                   done, arg, iters, calls>>

Step5Call ==
    /\ pc = "step1"
    /\ reset
    /\ op' = "step5"
    /\ ret' = None
    /\ err' = NoError
    /\ UNCHANGED <<pc, input, n, m, costMat, starred, z1_r, z1_c, z1, step,
                   done, arg, iters, calls>>

NextReset ==
    \/ Construct
    \/ PrimeCall
    \/ ResetCall
    \/ Step5Call

SpecReset == InitStar /\ [][NextReset]_vars

(***************************************************************************)
(* C18: from any state, reset, and so step5, leaves every prime false,      *)
(* every row cover false and every column cover false, and does not change  *)
(* the cost matrix.                                                         *)
(***************************************************************************)
C18_ResetClearsPrimesAndCovers ==
    [][op' \in {"reset", "step5"} =>
          /\ \A i \in Rows : \A j \in Cols : ~primed'[i][j]
          /\ \A i \in Rows : ~row_covered'[i]
          /\ \A j \in Cols : ~col_covered'[j]
          /\ costMat' = costMat]_vars

\* step5 has run on a solver in which two cells had been primed
C18_Witness ==
    /\ op = "step5"
    /\ calls = 2
    /\ \A i \in Rows : \A j \in Cols : ~primed[i][j]
    /\ \E i \in Rows : \E j \in Cols : costMat[i][j] # 0

(***************************************************************************)
(* C19: no valid input makes step3 raise "Column is already covered",       *)
(* neither in the first step3 after step1 and step2 nor in a step3 that     *)
(* follows a step5, because no two starred cells share a column.            *)
(***************************************************************************)
C19_NoDoubleCoveredColumn ==
    /\ op = "step3" => err # CoveredError
    /\ \A j \in Cols : Cardinality({i \in Rows : starred[i][j]}) <= 1

\* the step3 that follows a step5 has run on a grid with stars in two columns
C19_Witness ==
    /\ op = "step3" /\ pc = "step4"
    /\ step = 5
    /\ err # CoveredError
    /\ Cardinality({j \in Cols : \E i \in Rows : starred[i][j]}) >= 2

(***************************************************************************)
(* C20: after step1 and step2 on a fresh solver the starred cells are a     *)
(* maximal independent set of zeros: every starred cell has zero cost, and  *)
(* every zero is starred or has a star in its row or in its column.         *)
(***************************************************************************)
C20_Step2StarsMaximalSet ==
    (op = "step2" /\ pc = "step3") =>
        /\ \A i \in Rows : \A j \in Cols : starred[i][j] => costMat[i][j] = 0
        /\ \A i \in Rows : \A j \in Cols :
              costMat[i][j] = 0 =>
                  \/ starred[i][j]
                  \/ \E k \in Cols : starred[i][k]
                  \/ \E h \in Rows : starred[h][j]

\* step2 has starred two zeros and passed over a third one
C20_Witness ==
    /\ op = "step2" /\ pc = "step3"
    /\ StarCount >= 2
    /\ \E i \in Rows : \E j \in Cols : costMat[i][j] = 0 /\ ~starred[i][j]
====
